---- MODULE Spec2Model ----
(***************************************************************************)
(* A model of the YouTube agent backend: the OAuth2 credential routine of  *)
(* backend/auth.py and the operations of backend/youtube_api.py that the   *)
(* HTTP handlers of backend/mcp_server.py call.                            *)
(*                                                                         *)
(*   SpecAuth  several handlers run get_credentials concurrently, each     *)
(*             statement of the routine being one step, while time passes. *)
(*   SpecSeq   one caller runs get_credentials again and again, while time *)
(*             passes.                                                     *)
(*   SpecOps   one request at a time runs a public operation of            *)
(*             youtube_api.py; every remote call goes through              *)
(*             _get_youtube_client, hence through the same steps of        *)
(*             get_credentials.                                            *)
(***************************************************************************)
EXTENDS Integers, Sequences, FiniteSets, TLC

\* ------------------------------------------------------------------ bounds
NumProcs == 2           \* concurrent handlers in SpecAuth
MaxCalls == 2           \* get_credentials calls per handler in SpecAuth
MaxTime == 3            \* the clock runs from 1 to MaxTime
TokenLifetime == 2      \* lifetime the authorization server gives a token

Req == 0                \* the one request of SpecOps
Procs == 1..NumProcs    \* the concurrent handlers of SpecAuth
AllProcs == {Req} \cup Procs

VARIABLES
    TOKEN_FILE,   \* the token store: [state, creds]
    now,          \* the clock
    issued,       \* access tokens issued so far by the authorization server
    pc,           \* pc[p]: position of p in get_credentials
    creds,        \* creds[p]: the local variable creds of get_credentials
    stat,         \* stat[p]: what p's current call of get_credentials did
    ncalls,       \* ncalls[p]: calls of get_credentials p has started
    req,          \* the running public operation and its local variables
    callee,       \* the function of youtube_api.py the operation has called
    phase,        \* where the running function is in its remote call
    out,          \* what the operation returned
    rcalls,       \* remote calls made for the request, by kind
    exc,          \* the last exception raised while serving the request
    hist          \* hist[p]: the last two get_credentials calls p has finished

authVars == <<TOKEN_FILE, now, issued, pc, creds, stat, ncalls>>

opVars == <<req, callee, phase, out, rcalls, exc, hist>>

vars == <<TOKEN_FILE, now, issued, pc, creds, stat, ncalls,
          req, callee, phase, out, rcalls, exc, hist>>

\* ------------------------------------------------------------- credentials
\* A credential object; some = FALSE is Python's None. token = 0 is a
\* credential without access token, expiry = 0 one without expiry.
None == [some |-> FALSE, token |-> 0, expiry |-> 0, refresh_token |-> FALSE]

Cred(tok, exp, rt) == [some |-> TRUE, token |-> tok, expiry |-> exp, refresh_token |-> rt]

\* creds.expired
Expired(c, t) == c.expiry # 0 /\ t >= c.expiry

\* creds.valid
Valid(c, t) == c.token # 0 /\ ~Expired(c, t)

NeedsLoginAlways(c, t) == TRUE

\* auth.py:22   not creds or not creds.valid
NeedsLogin(c, t) == ~c.some \/ ~Valid(c, t)

CanRefreshNoToken(c, t) == c.some /\ Expired(c, t) /\ ~c.refresh_token

\* auth.py:23   creds and creds.expired and creds.refresh_token
CanRefresh(c, t) == c.some /\ Expired(c, t) /\ c.refresh_token

\* creds.refresh(Request()) on success: token and expiry replaced in place
Refreshed(c, tok, t) == [c EXCEPT !.token = tok, !.expiry = t + TokenLifetime]

\* flow.run_local_server(port=0) on success: a new credential
Authorized(tok, t) == Cred(tok, t + TokenLifetime, TRUE)

NoFile == [state |-> "absent", creds |-> None]

File(c) == [state |-> "ok", creds |-> c]

\* the token stores a run may start from: no file, a valid credential, an
\* expired one with and without refresh token, one without access token
InitialFiles ==
    { NoFile,
      File(Cred(1, MaxTime, TRUE)),
      File(Cred(1, 1, TRUE)),
      File(Cred(1, 1, FALSE)),
      File(Cred(0, 0, TRUE)) }

NoStat == [loaded |-> None, loadTime |-> 0, checkTime |-> 0, refreshes |-> 0,
           flows |-> 0, writes |-> 0, exc |-> "none"]

\* ---------------------------------------------------------- get_credentials
\* _get_youtube_client calls get_credentials: creds = None
CallGetCredentials(p) ==
    /\ pc' = [pc EXCEPT ![p] = "load"]
    /\ creds' = [creds EXCEPT ![p] = None]
    /\ stat' = [stat EXCEPT ![p] = NoStat]
    /\ ncalls' = [ncalls EXCEPT ![p] = @ + 1]

\* auth.py:18-20   load the pickled credential if the file exists; an empty
\* file (one a concurrent writer has just truncated) makes pickle.load raise
Load(p) ==
    /\ pc[p] = "load"
    /\ IF TOKEN_FILE.state = "empty"
         THEN /\ pc' = [pc EXCEPT ![p] = "raised"]
              /\ stat' = [stat EXCEPT ![p].exc = "EOFError"]
              /\ UNCHANGED creds
         ELSE /\ pc' = [pc EXCEPT ![p] = "check"]
              /\ creds' = [creds EXCEPT ![p] = TOKEN_FILE.creds]
              /\ stat' = [stat EXCEPT ![p].loaded = TOKEN_FILE.creds,
                                      ![p].loadTime = now]
    /\ UNCHANGED <<TOKEN_FILE, now, issued, ncalls>>
    /\ UNCHANGED <<req, callee, phase, out, rcalls, exc, hist>>

\* auth.py:22, 33   a valid credential is returned as it is
CheckValid(p) ==
    /\ pc[p] = "check"
    /\ pc' = [pc EXCEPT ![p] = IF NeedsLogin(creds[p], now) THEN "login" ELSE "returned"]
    /\ stat' = [stat EXCEPT ![p].checkTime = now]
    /\ UNCHANGED <<TOKEN_FILE, now, issued, creds, ncalls>>
    /\ UNCHANGED <<req, callee, phase, out, rcalls, exc, hist>>

\* auth.py:23-24   the refresh call; a failure raises out of get_credentials
Refresh(p) ==
    /\ pc[p] = "login"
    /\ CanRefresh(creds[p], now)
    /\ \/ /\ creds' = [creds EXCEPT ![p] = Refreshed(@, issued + 1, now)]
          /\ issued' = issued + 1
          /\ pc' = [pc EXCEPT ![p] = "open"]
          /\ stat' = [stat EXCEPT ![p].refreshes = @ + 1]
       \/ /\ pc' = [pc EXCEPT ![p] = "raised"]
          /\ stat' = [stat EXCEPT ![p].refreshes = @ + 1, ![p].exc = "RefreshError"]
          /\ UNCHANGED <<creds, issued>>
    /\ UNCHANGED <<TOKEN_FILE, now, ncalls>>
    /\ UNCHANGED <<req, callee, phase, out, rcalls, exc, hist>>

\* auth.py:25-27   the interactive authorization flow
RunFlow(p) ==
    /\ pc[p] = "login"
    /\ ~CanRefresh(creds[p], now)
    /\ \/ /\ creds' = [creds EXCEPT ![p] = Authorized(issued + 1, now)]
          /\ issued' = issued + 1
          /\ pc' = [pc EXCEPT ![p] = "open"]
          /\ stat' = [stat EXCEPT ![p].flows = @ + 1]
       \/ /\ pc' = [pc EXCEPT ![p] = "raised"]
          /\ stat' = [stat EXCEPT ![p].flows = @ + 1, ![p].exc = "FlowError"]
          /\ UNCHANGED <<creds, issued>>
    /\ UNCHANGED <<TOKEN_FILE, now, ncalls>>
    /\ UNCHANGED <<req, callee, phase, out, rcalls, exc, hist>>

\* auth.py:30   open(TOKEN_FILE, "wb") truncates the file
OpenForWrite(p) ==
    /\ pc[p] = "open"
    /\ TOKEN_FILE' = [state |-> "empty", creds |-> None]
    /\ pc' = [pc EXCEPT ![p] = "dump"]
    /\ UNCHANGED <<now, issued, creds, stat, ncalls>>
    /\ UNCHANGED <<req, callee, phase, out, rcalls, exc, hist>>

\* auth.py:31, 33   pickle.dump(creds, f); return creds
Dump(p) ==
    /\ pc[p] = "dump"
    /\ TOKEN_FILE' = File(creds[p])
    /\ pc' = [pc EXCEPT ![p] = "returned"]
    /\ stat' = [stat EXCEPT ![p].writes = @ + 1]
    /\ UNCHANGED <<now, issued, creds, ncalls>>
    /\ UNCHANGED <<req, callee, phase, out, rcalls, exc, hist>>

get_credentials(p) ==
    \/ Load(p)
    \/ CheckValid(p)
    \/ Refresh(p)
    \/ RunFlow(p)
    \/ OpenForWrite(p)
    \/ Dump(p)

\* ------------------------------------------------ concurrent handlers
NoCall == [done |-> FALSE, stat |-> NoStat, ended |-> "idle", result |-> None, file |-> NoFile]

\* the get_credentials call of p that has just ended: what it did, what it
\* returned and what the token store holds
FinishedCall(p) ==
    [done |-> TRUE, stat |-> stat[p], ended |-> pc[p], result |-> creds[p],
     file |-> TOKEN_FILE]

\* youtube_api.py:10-11   a handler reaches _get_youtube_client
Begin(p) ==
    /\ pc[p] = "idle"
    /\ ncalls[p] < MaxCalls
    /\ CallGetCredentials(p)
    /\ UNCHANGED <<TOKEN_FILE, now, issued>>
    /\ UNCHANGED opVars

\* youtube_api.py:11-12   get_credentials has returned or raised
End(p) ==
    /\ pc[p] \in {"returned", "raised"}
    /\ pc' = [pc EXCEPT ![p] = "idle"]
    /\ hist' = [hist EXCEPT ![p] = <<@[2], FinishedCall(p)>>]
    /\ UNCHANGED <<TOKEN_FILE, now, issued, creds, stat, ncalls>>
    /\ UNCHANGED <<req, callee, phase, out, rcalls, exc>>

\* time passes
Tick ==
    /\ now < MaxTime
    /\ now' = now + 1
    /\ UNCHANGED <<TOKEN_FILE, issued, pc, creds, stat, ncalls>>
    /\ UNCHANGED opVars

\* ------------------------------------------------------- extract_video_id
IdLen == 11

\* [0-9A-Za-z_-]
IdChars ==
    { "0", "1", "2", "3", "4", "5", "6", "7", "8", "9",
      "A", "B", "C", "D", "E", "F", "G", "H", "I", "J", "K", "L", "M",
      "N", "O", "P", "Q", "R", "S", "T", "U", "V", "W", "X", "Y", "Z",
      "a", "b", "c", "d", "e", "f", "g", "h", "i", "j", "k", "l", "m",
      "n", "o", "p", "q", "r", "s", "t", "u", "v", "w", "x", "y", "z",
      "_", "-" }

\* None, as the video id or channel id a function returns
NoId == <<>>

\* the literal s stands in url at position i
Lit(url, i, s) == i + Len(s) - 1 <= Len(url) /\ SubSeq(url, i, i + Len(s) - 1) = s

\* ([0-9A-Za-z_-]{11}) matches at position j
IdAt(url, j) ==
    /\ j + IdLen - 1 <= Len(url)
    /\ \A k \in j..(j + IdLen - 1) : url[k] \in IdChars

\* (?:[&\?#]|$) matches at position q; $ also matches before a final newline
EndAt(url, q) ==
    \/ q = Len(url) + 1
    \/ q <= Len(url) /\ url[q] \in {"&", "?", "#"}
    \/ q = Len(url) /\ url[q] = "\n"

\* where the id starts when the pattern's head (one of heads) matches at i
\* and the rest of the pattern after it; 0 when the pattern does not match at i
MatchAt(url, i, heads) ==
    LET starts == { i + Len(h) : h \in { g \in heads : Lit(url, i, g) } }
        good == { j \in starts : IdAt(url, j) /\ EndAt(url, j + IdLen) }
    IN IF good = {} THEN 0 ELSE CHOOSE j \in good : TRUE

\* re.search(p, url): the leftmost match, its group 1; NoId without match
Search(url, heads) ==
    LET at == { i \in 1..Len(url) : MatchAt(url, i, heads) # 0 }
    IN IF at = {} THEN NoId
       ELSE LET i == CHOOSE x \in at : \A y \in at : x <= y
                j == MatchAt(url, i, heads)
            IN SubSeq(url, j, j + IdLen - 1)

\* youtube_api.py:23   (?:v=|\/)
Pattern1 == { <<"v", "=">>, <<"/">> }

\* youtube_api.py:24   youtu\.be\/
Pattern2 == { <<"y", "o", "u", "t", "u", ".", "b", "e", "/">> }

\* youtube_api.py:16-30
extract_video_id(url) ==
    IF ~url.isstr THEN NoId
    ELSE IF Search(url.chars, Pattern1) # NoId THEN Search(url.chars, Pattern1)
    ELSE Search(url.chars, Pattern2)

\* ------------------------------------------------------------------ inputs
Str(chars) == [isstr |-> TRUE, chars |-> chars]

NotAString == [isstr |-> FALSE, chars |-> <<>>]

Watch == <<"y", "o", "u", "t", "u", "b", "e", ".", "c", "o", "m", "/",
           "w", "a", "t", "c", "h", "?", "v", "=">>

Short == <<"h", "t", "t", "p", "s", ":", "/", "/", "y", "o", "u", "t", "u", ".", "b", "e", "/">>

Id1 == <<"d", "Q", "w", "4", "w", "9", "W", "g", "X", "c", "Q">>

\* the video_url arguments: three with an id, four without
Urls ==
    { Str(Watch \o Id1),
      Str(Watch \o Id1 \o <<"&", "t", "=", "1">>),
      Str(Short \o Id1),
      Str(Watch \o SubSeq(Id1, 1, IdLen - 1)),
      Str(Watch \o Id1 \o <<"x">>),
      Str(<<>>),
      NotAString }

\* extract_video_id of each of them
video_id_of == [u \in Urls |-> extract_video_id(u)]

\* the text arguments of comment_on_video: "", a text, None, a number
Texts == { [isstr |-> s, truthy |-> t] : s, t \in BOOLEAN }

\* the max_results arguments of search_videos
SearchLimits == {-1, 0, 1, 5}

\* the max_results arguments of get_liked_videos
LikedLimits == {1, 10}

\* the max_results arguments of get_recommended_videos
RecommendLimits == {0, 1, 10}

\* the videoIds the remote service answers with; "" is an item without videoId
VideoIds == {"", "idA", "idB"}

\* the titles of liked videos, as title.split() sees them
Titles == { <<>>, <<"Intro", "to", "Rust", "Programming", "Tutorial">> }

MaxItems == 2           \* items in one answer to a search
MaxLiked == 2           \* items in one answer to the liked-videos listing

Min(a, b) == IF a <= b THEN a ELSE b

SeqsUpTo(S, n) == UNION { [1..k -> S] : k \in 0..n }

\* --------------------------------------------------------- values, faults
\* What a function returns: a list, {"message": msg}, {"error": msg}, a plain
\* value (msg), or no return at all: the exception e left the function.
NoExc == [cls |-> "none", status |-> [ty |-> "none", v |-> ""], at |-> "none"]

List(items) == [kind |-> "list", msg |-> "", items |-> items, e |-> NoExc]

Message(m) == [kind |-> "message", msg |-> m, items |-> <<>>, e |-> NoExc]

Error(m) == [kind |-> "error", msg |-> m, items |-> <<>>, e |-> NoExc]

Value(v) == [kind |-> "value", msg |-> v, items |-> <<>>, e |-> NoExc]

Escaped(e) == [kind |-> "escaped", msg |-> "", items |-> <<>>, e |-> e]

NoOut == [kind |-> "none", msg |-> "", items |-> <<>>, e |-> NoExc]

\* Python values that == compares: an int and a str are never equal
PyInt(digits) == [ty |-> "int", v |-> digits]

PyStr(chars) == [ty |-> "str", v |-> chars]

PyEq(a, b) == a.ty = b.ty /\ a.v = b.v

\* an exception of class cls raised at the place at; status is e.resp.status,
\* an int, of an HttpError
Exc(cls, status, at) == [cls |-> cls, status |-> status, at |-> at]

NoStatus == [ty |-> "none", v |-> ""]

\* the faults of build() and of a request's execute()
BuildFaults == { Exc("OSError", NoStatus, "build") }

ExecuteFaults ==
    { Exc("HttpError", PyInt("404"), "execute"),
      Exc("HttpError", PyInt("403"), "execute"),
      Exc("OSError", NoStatus, "execute") }

\* isinstance(e, cls) for the classes of the except clauses; socket.error is
\* OSError, and every fault modelled is an Exception
IsInstance(e, cls) ==
    CASE cls = "Exception" -> TRUE
      [] cls = "HttpError" -> e.cls = "HttpError"
      [] cls = "socket.error" -> e.cls = "OSError"
      [] OTHER -> FALSE

\* the except clauses of each function, in order: [cls, does]
Handlers(fn) ==
    CASE fn = "extract_channel_id_from_video" ->
            << [cls |-> "HttpError", does |-> "None"],
               [cls |-> "Exception", does |-> "None"] >>
      [] fn = "search_videos" ->
            << [cls |-> "HttpError", does |-> "HttpError"],
               [cls |-> "socket.error", does |-> "Network error"],
               [cls |-> "Exception", does |-> "str"] >>
      [] fn = "like_video" ->
            << [cls |-> "HttpError", does |-> "404?"],
               [cls |-> "Exception", does |-> "str"] >>
      [] fn \in {"comment_on_video", "subscribe_channel", "get_liked_videos"} ->
            << [cls |-> "HttpError", does |-> "HttpError"],
               [cls |-> "Exception", does |-> "str"] >>
      [] fn = "get_recommended_videos" ->
            << [cls |-> "Exception", does |-> "str"] >>

NotFoundMessage == "Video not found or inaccessible (404)."

\* the body of the except clause h for the exception e
Handle(h, e) ==
    CASE h.does = "None" -> Value(NoId)
      [] h.does = "HttpError" -> Error("HttpError: e")
      [] h.does = "Network error" -> Error("Network error: e")
      [] h.does = "str" -> Error("str(e)")
      [] h.does = "404?" ->
            \* youtube_api.py:93-96
            IF PyEq(e.status, PyStr("404")) THEN Error(NotFoundMessage)
            ELSE Error("HttpError: e")

CatchFirstOnly(fn, e) ==
    IF IsInstance(e, Handlers(fn)[1].cls) THEN Handle(Handlers(fn)[1], e) ELSE Escaped(e)

\* what fn returns when e is raised inside its try block
Catch(fn, e) ==
    LET hs == Handlers(fn)
        ok == { k \in 1..Len(hs) : IsInstance(e, hs[k].cls) }
    IN IF ok = {} THEN Escaped(e)
       ELSE Handle(hs[CHOOSE k \in ok : \A m \in ok : k <= m], e)

\* ------------------------------------------------------------ the request
NoReq ==
    [fn |-> "none", video_url |-> NotAString, text |-> [isstr |-> FALSE, truthy |-> FALSE],
     query |-> <<>>, max_results |-> 0, video_id |-> NoId, channel_id |-> NoId,
     liked |-> <<>>, i |-> 0, recommended |-> <<>>]

NoCallee == [fn |-> "none", query |-> <<>>, max_results |-> 0, video_id |-> NoId]

NoCalls ==
    [build |-> 0, videos_list |-> 0, search_list |-> 0, rate |-> 0,
     comment_insert |-> 0, subscription_insert |-> 0]

\* the function that is running: the operation, or the function it has called
Active == IF callee.fn # "none" THEN callee.fn ELSE req.fn

Idle == phase = "idle"

\* youtube_api.py:84, 104, 131   not video_id
InvalidReferenceNever(video_id) == FALSE

InvalidReference(video_id) == video_id = NoId

\* youtube_api.py:197   " ".join(title.split()[:4])
Keywords(title) == SubSeq(title, 1, Min(4, Len(title)))

\* the first liked video from the i-th on that gives a query (youtube_api.py:194-199)
NextQuery(liked, i) ==
    LET js == { j \in i..Len(liked) : Keywords(liked[j].title) # <<>> }
    IN IF js = {} THEN Len(liked) + 1 ELSE CHOOSE j \in js : \A k \in js : j <= k

\* youtube_api.py:205-214   the loop over recommended from its k-th item
RECURSIVE DedupLoop(_, _, _, _, _)
DedupLoop(recommended, k, unique, seen, max_results) ==
    IF k > Len(recommended) THEN unique
    ELSE LET r == recommended[k]
         IN IF r.videoId = "" \/ r.videoId \in seen
              THEN DedupLoop(recommended, k + 1, unique, seen, max_results)
            ELSE IF Len(unique) + 1 >= max_results
              THEN Append(unique, r)
            ELSE DedupLoop(recommended, k + 1, Append(unique, r),
                           seen \cup {r.videoId}, max_results)

RECURSIVE NoSeenLoop(_, _, _, _)
NoSeenLoop(recommended, k, unique, max_results) ==
    IF k > Len(recommended) THEN unique
    ELSE IF Len(unique) + 1 >= max_results THEN Append(unique, recommended[k])
    ELSE NoSeenLoop(recommended, k + 1, Append(unique, recommended[k]), max_results)

UniqueNoSeen(recommended, max_results) == NoSeenLoop(recommended, 1, <<>>, max_results)

\* youtube_api.py:204-216   deduplicate by videoId and limit
Unique(recommended, max_results) == DedupLoop(recommended, 1, <<>>, {}, max_results)

\* the operation returns v
Finish(v) ==
    /\ out' = v
    /\ phase' = "done"
    /\ callee' = NoCallee
    /\ UNCHANGED <<req, pc, creds, stat, ncalls>>

\* the running function calls _get_youtube_client
StartClient ==
    /\ phase' = "client"
    /\ CallGetCredentials(Req)

\* youtube_api.py:194-216   get_recommended_videos goes on with its loop: the
\* next search, or after the last liked video the deduplicated list
Continue(r) ==
    LET j == NextQuery(r.liked, r.i)
    IN IF j > Len(r.liked)
         THEN /\ req' = [r EXCEPT !.i = j]
              /\ out' = List(Unique(r.recommended, r.max_results))
              /\ phase' = "done"
              /\ callee' = NoCallee
              /\ UNCHANGED <<pc, creds, stat, ncalls>>
         ELSE /\ req' = [r EXCEPT !.i = j]
              /\ callee' = [fn |-> "search_videos", query |-> Keywords(r.liked[j].title),
                            max_results |-> 3, video_id |-> NoId]
              /\ out' = out
              /\ StartClient

\* the running function returns v (or, v.kind = "escaped", lets v.e out): to
\* the client of the operation, or to the operation that called the function
FnReturn(v) ==
    IF callee.fn = "none" THEN Finish(v)
    ELSE IF req.fn = "subscribe_channel"
      THEN \* youtube_api.py:133-138; the call is outside the try block
           IF v.kind = "escaped" THEN Finish(v)
           ELSE IF v.msg = NoId THEN Finish(Error("Channel not found from video"))
           ELSE /\ req' = [req EXCEPT !.channel_id = v.msg]
                /\ callee' = NoCallee
                /\ out' = out
                /\ StartClient
    ELSE \* get_recommended_videos, youtube_api.py:188-202, 217
         IF v.kind = "escaped" THEN Finish(Catch("get_recommended_videos", v.e))
         ELSE IF callee.fn = "get_liked_videos"
           THEN IF v.kind = "error" THEN Finish(v)
                ELSE Continue([req EXCEPT !.liked = v.items, !.i = 1])
         ELSE Continue([req EXCEPT
                           !.recommended = IF v.kind = "list" THEN @ \o v.items ELSE @,
                           !.i = @ + 1])

\* the running function raises e inside its try block
Raise(e) ==
    /\ exc' = e
    /\ FnReturn(Catch(Active, e))

\* a public operation is called and makes its first remote call
Enter(r, c) ==
    /\ Idle
    /\ req' = r
    /\ callee' = c
    /\ out' = NoOut
    /\ exc' = NoExc
    /\ rcalls' = NoCalls
    /\ phase' = "client"
    /\ pc' = [pc EXCEPT ![Req] = "load"]
    /\ creds' = [creds EXCEPT ![Req] = None]
    /\ stat' = [stat EXCEPT ![Req] = NoStat]
    /\ ncalls' = [ncalls EXCEPT ![Req] = 1]
    /\ UNCHANGED <<TOKEN_FILE, now, issued, hist>>

\* a public operation is called and returns v at once
Reject(r, v) ==
    /\ Idle
    /\ req' = r
    /\ callee' = NoCallee
    /\ out' = v
    /\ exc' = NoExc
    /\ rcalls' = NoCalls
    /\ phase' = "done"
    /\ pc' = [pc EXCEPT ![Req] = "idle"]
    /\ creds' = [creds EXCEPT ![Req] = None]
    /\ stat' = [stat EXCEPT ![Req] = NoStat]
    /\ ncalls' = [ncalls EXCEPT ![Req] = 0]
    /\ UNCHANGED <<TOKEN_FILE, now, issued, hist>>

\* ------------------------------------------------------ remote call steps
\* youtube_api.py:11-12   get_credentials has returned: build the client
build ==
    /\ phase = "client"
    /\ pc[Req] = "returned"
    /\ rcalls' = [rcalls EXCEPT !.build = @ + 1]
    /\ \/ /\ phase' = "execute"
          /\ UNCHANGED <<req, callee, out, exc, pc, creds, stat, ncalls>>
       \/ \E e \in BuildFaults : Raise(e)
    /\ UNCHANGED <<TOKEN_FILE, now, issued, hist>>

\* youtube_api.py:11   get_credentials has raised
client_raised ==
    /\ phase = "client"
    /\ pc[Req] = "raised"
    /\ Raise(Exc(stat[Req].exc, NoStatus, "client"))
    /\ UNCHANGED <<TOKEN_FILE, now, issued, rcalls, hist>>

\* a search result the service answers with: its videoId and, as its
\* channelTitle, the place of the item among all the answers of the request
Hit(vid, k) ==
    [videoId |-> vid, title |-> <<"hit">>, channelTitle |-> 10 * req.i + k]

\* the answers of the service to search().list(maxResults=n): at most n items
SearchAnswers(n) == SeqsUpTo(VideoIds, Min(MaxItems, n))

\* youtube_api.py:62-72   the items with a videoId
SearchResults(answer) ==
    LET hits == [k \in 1..Len(answer) |-> Hit(answer[k], k)]
    IN SelectSeq(hits, LAMBDA h : h.videoId # "")

\* the answers to videos().list(myRating="like", maxResults=n): their titles
LikedAnswers(n) == SeqsUpTo(Titles, Min(MaxLiked, n))

\* youtube_api.py:168-175
LikedItems(answer) ==
    [k \in 1..Len(answer) |-> [videoId |-> "liked", title |-> answer[k], channelTitle |-> 0]]

\* youtube_api.py:55-78   search().list(...).execute() and what follows
search_videos_execute ==
    /\ phase = "execute"
    /\ Active = "search_videos"
    /\ rcalls' = [rcalls EXCEPT !.search_list = @ + 1]
    /\ LET n == IF callee.fn = "none" THEN req.max_results ELSE callee.max_results
       IN \/ \E a \in SearchAnswers(n) : exc' = exc /\ FnReturn(List(SearchResults(a)))
          \/ \E e \in ExecuteFaults : Raise(e)
    /\ UNCHANGED <<TOKEN_FILE, now, issued, hist>>

\* youtube_api.py:162-179   videos().list(myRating="like").execute()
get_liked_videos_execute ==
    /\ phase = "execute"
    /\ Active = "get_liked_videos"
    /\ rcalls' = [rcalls EXCEPT !.videos_list = @ + 1]
    /\ LET n == IF callee.fn = "none" THEN req.max_results ELSE callee.max_results
       IN \/ \E a \in LikedAnswers(n) : exc' = exc /\ FnReturn(List(LikedItems(a)))
          \/ \E e \in ExecuteFaults : Raise(e)
    /\ UNCHANGED <<TOKEN_FILE, now, issued, hist>>

\* youtube_api.py:36-45   videos().list(id=video_id).execute(): no item, an
\* item without channelId, or the channel id
extract_channel_id_from_video_execute ==
    /\ phase = "execute"
    /\ Active = "extract_channel_id_from_video"
    /\ rcalls' = [rcalls EXCEPT !.videos_list = @ + 1]
    /\ \/ \E ch \in {NoId, <<"U", "C", "1">>} : exc' = exc /\ FnReturn(Value(ch))
       \/ \E e \in ExecuteFaults : Raise(e)
    /\ UNCHANGED <<TOKEN_FILE, now, issued, hist>>

\* youtube_api.py:89-98   videos().rate(rating="like").execute()
like_video_execute ==
    /\ phase = "execute"
    /\ Active = "like_video"
    /\ rcalls' = [rcalls EXCEPT !.rate = @ + 1]
    /\ \/ exc' = exc /\ FnReturn(Message("Done! I liked the video for you."))
       \/ \E e \in ExecuteFaults : Raise(e)
    /\ UNCHANGED <<TOKEN_FILE, now, issued, hist>>

\* youtube_api.py:111-125   commentThreads().insert(...).execute()
comment_on_video_execute ==
    /\ phase = "execute"
    /\ Active = "comment_on_video"
    /\ rcalls' = [rcalls EXCEPT !.comment_insert = @ + 1]
    /\ \/ exc' = exc /\ FnReturn(Message("Done! I commented on the video for you."))
       \/ \E e \in ExecuteFaults : Raise(e)
    /\ UNCHANGED <<TOKEN_FILE, now, issued, hist>>

\* youtube_api.py:139-151   subscriptions().insert(...).execute()
subscribe_channel_execute ==
    /\ phase = "execute"
    /\ Active = "subscribe_channel"
    /\ rcalls' = [rcalls EXCEPT !.subscription_insert = @ + 1]
    /\ \/ exc' = exc /\ FnReturn(Message("Done! Subscribed to the channel for you."))
       \/ \E e \in ExecuteFaults : Raise(e)
    /\ UNCHANGED <<TOKEN_FILE, now, issued, hist>>

\* ------------------------------------------------------ public operations
\* youtube_api.py:49-54
search_videos(query, max_results) ==
    Enter([NoReq EXCEPT !.fn = "search_videos", !.query = query,
                        !.max_results = max_results], NoCallee)

\* youtube_api.py:155-161
get_liked_videos(max_results) ==
    Enter([NoReq EXCEPT !.fn = "get_liked_videos", !.max_results = max_results], NoCallee)

\* youtube_api.py:183-189   liked = get_liked_videos(max_results=10)
get_recommended_videos(max_results) ==
    Enter([NoReq EXCEPT !.fn = "get_recommended_videos", !.max_results = max_results],
          [NoCallee EXCEPT !.fn = "get_liked_videos", !.max_results = 10])

\* youtube_api.py:82-88
like_video(video_url) ==
    LET video_id == video_id_of[video_url]
        r == [NoReq EXCEPT !.fn = "like_video", !.video_url = video_url,
                           !.video_id = video_id]
    IN IF InvalidReference(video_id) THEN Reject(r, Error("Invalid video URL"))
       ELSE Enter(r, NoCallee)

\* youtube_api.py:102-110
comment_on_video(video_url, text) ==
    LET video_id == video_id_of[video_url]
        r == [NoReq EXCEPT !.fn = "comment_on_video", !.video_url = video_url,
                           !.text = text, !.video_id = video_id]
    IN IF InvalidReference(video_id) THEN Reject(r, Error("Invalid video URL"))
       ELSE IF ~text.truthy \/ ~text.isstr THEN Reject(r, Error("Comment text required"))
       ELSE Enter(r, NoCallee)

\* youtube_api.py:129-133   channel_id = extract_channel_id_from_video(video_id)
subscribe_channel(video_url) ==
    LET video_id == video_id_of[video_url]
        r == [NoReq EXCEPT !.fn = "subscribe_channel", !.video_url = video_url,
                           !.video_id = video_id]
    IN IF InvalidReference(video_id) THEN Reject(r, Error("Invalid video URL"))
       ELSE Enter(r, [NoCallee EXCEPT !.fn = "extract_channel_id_from_video",
                                      !.video_id = video_id])

\* mcp_server.py:30-52   the handler answers with what the operation
\* returned; nothing of the request is kept
respond ==
    /\ phase = "done"
    /\ phase' = "idle"
    /\ req' = NoReq
    /\ callee' = NoCallee
    /\ out' = NoOut
    /\ exc' = NoExc
    /\ rcalls' = NoCalls
    /\ pc' = [pc EXCEPT ![Req] = "idle"]
    /\ creds' = [creds EXCEPT ![Req] = None]
    /\ stat' = [stat EXCEPT ![Req] = NoStat]
    /\ ncalls' = [ncalls EXCEPT ![Req] = 0]
    /\ UNCHANGED <<TOKEN_FILE, now, issued, hist>>

\* ----------------------------------------------------------- specifications
Init ==
    /\ TOKEN_FILE \in InitialFiles
    /\ now = 1
    /\ issued = 1
    /\ pc = [p \in AllProcs |-> "idle"]
    /\ creds = [p \in AllProcs |-> None]
    /\ stat = [p \in AllProcs |-> NoStat]
    /\ ncalls = [p \in AllProcs |-> 0]
    /\ req = NoReq
    /\ callee = NoCallee
    /\ phase = "idle"
    /\ out = NoOut
    /\ rcalls = NoCalls
    /\ exc = NoExc
    /\ hist = [p \in AllProcs |-> <<NoCall, NoCall>>]

\* the handlers of mcp_server.py, served in parallel, at get_credentials
NextAuth ==
    \/ \E p \in Procs : Begin(p)
    \/ \E p \in Procs : get_credentials(p)
    \/ \E p \in Procs : End(p)
    \/ Tick

SpecAuth == Init /\ [][NextAuth]_vars

\* one caller runs get_credentials again and again, while time passes
NextSeq ==
    \/ Begin(Req)
    \/ get_credentials(Req)
    \/ End(Req)
    \/ Tick

SpecSeq == Init /\ [][NextSeq]_vars

\* one request at a time
NextOps ==
    \/ \E m \in SearchLimits : search_videos(<<"cats">>, m)
    \/ \E m \in LikedLimits : get_liked_videos(m)
    \/ \E m \in RecommendLimits : get_recommended_videos(m)
    \/ \E u \in Urls : like_video(u)
    \/ \E u \in Urls, t \in Texts : comment_on_video(u, t)
    \/ \E u \in Urls : subscribe_channel(u)
    \/ get_credentials(Req)
    \/ build
    \/ client_raised
    \/ search_videos_execute
    \/ get_liked_videos_execute
    \/ extract_channel_id_from_video_execute
    \/ like_video_execute
    \/ comment_on_video_execute
    \/ subscribe_channel_execute
    \/ respond

SpecOps == Init /\ [][NextOps]_vars

Spec == SpecOps

\* ------------------------------------------------------------------ claims
\* p is in a call of get_credentials that has loaded the token store
HasLoaded(p) == pc[p] \in {"check", "login", "open", "dump", "returned", "raised"}

\* the credential p loaded was expired, with a refresh token
LoadedRefreshable(p) ==
    /\ HasLoaded(p)
    /\ stat[p].exc # "EOFError"
    /\ stat[p].loaded.some
    /\ Expired(stat[p].loaded, stat[p].loadTime)
    /\ stat[p].loaded.refresh_token

\* C1: handlers that run get_credentials at the same time and have loaded the
\* same expired credential with a refresh token send, together, at most one
\* refresh call and make at most one write to the token store.
C1_RefreshSerialized ==
    \A p, q \in Procs :
        ( /\ p # q
          /\ LoadedRefreshable(p) /\ pc[p] # "raised"
          /\ LoadedRefreshable(q) /\ pc[q] # "raised"
          /\ stat[p].loaded = stat[q].loaded )
        => /\ stat[p].refreshes + stat[q].refreshes <= 1
           /\ stat[p].writes + stat[q].writes <= 1

\* C2: a failed refresh of an expired credential with a refresh token never
\* makes get_credentials fail: the call goes on to the interactive flow.
C2_RefreshFailureFallsBack ==
    \A p \in Procs : pc[p] = "raised" => stat[p].exc # "RefreshError"

\* C3: a call of get_credentials that loads an expired credential with a
\* refresh token makes exactly one refresh call and never runs the interactive
\* flow, and when it returns, the refreshed credential it returns is the one
\* it has written to the token store, once.
C3_OneRefreshNoFlow ==
    LoadedRefreshable(Req) =>
        /\ stat[Req].flows = 0
        /\ stat[Req].refreshes <= 1
        /\ pc[Req] \in {"open", "dump", "returned", "raised"} => stat[Req].refreshes = 1
        /\ pc[Req] = "returned" =>
              /\ stat[Req].writes = 1
              /\ TOKEN_FILE = File(creds[Req])
              /\ creds[Req].token # stat[Req].loaded.token
              /\ creds[Req].expiry > stat[Req].checkTime
              /\ creds[Req].refresh_token

C3_Witness ==
    /\ LoadedRefreshable(Req)
    /\ pc[Req] = "returned"
    /\ stat[Req].refreshes = 1
    /\ stat[Req].writes = 1

\* the finished call c found in the token store a credential that was valid
\* when the call looked at it
StoredValid(c) ==
    /\ c.done
    /\ c.stat.checkTime # 0
    /\ c.stat.loaded.some
    /\ Valid(c.stat.loaded, c.stat.checkTime)

\* C4: two calls of get_credentials in succession that find a valid credential
\* in the token store make no refresh call, run no interactive flow and write
\* nothing; both return the stored credential, and the store still holds it.
C4_ValidIsIdempotent ==
    (StoredValid(hist[Req][1]) /\ StoredValid(hist[Req][2])) =>
        /\ \A k \in 1..2 :
              /\ hist[Req][k].ended = "returned"
              /\ hist[Req][k].stat.refreshes = 0
              /\ hist[Req][k].stat.flows = 0
              /\ hist[Req][k].stat.writes = 0
              /\ hist[Req][k].result = hist[Req][k].stat.loaded
              /\ hist[Req][k].file = File(hist[Req][k].stat.loaded)
        /\ hist[Req][1].result = hist[Req][2].result

C4_Witness ==
    /\ StoredValid(hist[Req][1])
    /\ StoredValid(hist[Req][2])
    /\ hist[Req][2].ended = "returned"
    /\ hist[Req][1].result = hist[Req][2].result

ListOps == {"search_videos", "get_liked_videos", "get_recommended_videos"}

MessageOps == {"like_video", "comment_on_video", "subscribe_channel"}

\* C5: a public operation ends by returning a list or a message (its success
\* value) or an error object, whatever fault was raised while it obtained the
\* credentials, built the client or executed a remote call; no exception
\* leaves it.
C5_NoFaultEscapes ==
    /\ out.kind # "escaped"
    /\ phase = "done" =>
          \/ out.kind = "error"
          \/ out.kind = "list" /\ req.fn \in ListOps
          \/ out.kind = "message" /\ req.fn \in MessageOps

C5_Witness ==
    /\ phase = "done"
    /\ req.fn = "subscribe_channel"
    /\ exc.cls = "OSError"
    /\ exc.at = "execute"
    /\ rcalls.subscription_insert = 1
    /\ out.kind = "error"

\* C6: like_video, comment_on_video and subscribe_channel, given a URL from
\* which extract_video_id returns no id, return an error object and call
\* nothing: not get_credentials, not build, no remote request.
C6_InvalidUrlNoRemoteCall ==
    (req.fn \in MessageOps /\ video_id_of[req.video_url] = NoId) =>
        /\ phase = "done"
        /\ out.kind = "error"
        /\ ncalls[Req] = 0
        /\ pc[Req] = "idle"
        /\ rcalls = NoCalls
        /\ callee = NoCallee

C6_Witness ==
    /\ req.fn = "subscribe_channel"
    /\ req.video_url = Str(Watch \o Id1 \o <<"x">>)
    /\ video_id_of[req.video_url] = NoId
    /\ phase = "done"
    /\ out = Error("Invalid video URL")

\* C7: when the rate call of like_video fails with an HTTP error, like_video
\* returns the not-found error if the status is 404 and the generic HttpError
\* error for every other status.
C7_NotFoundIsDistinct ==
    ( /\ phase = "done"
      /\ req.fn = "like_video"
      /\ exc.cls = "HttpError"
      /\ exc.at = "execute" )
    => /\ out.kind = "error"
       /\ (out.msg = NotFoundMessage) <=> (exc.status.v = "404")

\* the items of s that are the first with their videoId, in the order of s
FirstOccurrences(s) ==
    LET keep == { k \in 1..Len(s) : \A j \in 1..(k - 1) : s[j].videoId # s[k].videoId }
    IN [n \in 1..Cardinality(keep) |->
           s[CHOOSE k \in keep : Cardinality({ j \in keep : j <= k }) = n]]

IsPrefix(s, t) == Len(s) <= Len(t) /\ s = SubSeq(t, 1, Len(s))

RecommendReturnedList ==
    /\ phase = "done"
    /\ req.fn = "get_recommended_videos"
    /\ out.kind = "list"

\* C8: the list get_recommended_videos returns holds no two items with one
\* videoId; its items are first occurrences of their videoId in the
\* concatenation of the search results, taken in liked-video order, and they
\* come in the order of that concatenation, none left out before the last;
\* first occurrences are missing at the end only when the limit is reached.
C8_RecommendDeduplicates ==
    RecommendReturnedList =>
        /\ \A a, b \in 1..Len(out.items) :
              a # b => out.items[a].videoId # out.items[b].videoId
        /\ \A a, b \in 1..Len(req.recommended) :
              a < b => req.recommended[a].channelTitle < req.recommended[b].channelTitle
        /\ IsPrefix(out.items, FirstOccurrences(req.recommended))
        /\ \/ out.items = FirstOccurrences(req.recommended)
           \/ Len(out.items) >= req.max_results

C8_Witness ==
    /\ RecommendReturnedList
    /\ req.max_results = 10
    /\ Len(req.liked) = 2
    /\ Len(req.recommended) = 4
    /\ Len(out.items) = 2
    /\ out.items[2] = req.recommended[3]

\* C9: for every max_results >= 0, a list returned by
\* get_recommended_videos(max_results) has at most max_results items.
C9_RecommendAtMostLimit ==
    (RecommendReturnedList /\ req.max_results >= 0) =>
        Len(out.items) <= req.max_results

\* C10: search_videos called with max_results < 1 returns an error object and
\* never issues the remote search request.
C10_SearchValidatesLimit ==
    (req.fn = "search_videos" /\ req.max_results < 1) =>
        /\ rcalls.search_list = 0
        /\ phase = "done" => out.kind = "error"

====
